---------------------------- MODULE Spec2Model ----------------------------
(***************************************************************************)
(* Correlation engine of kalshi-correlation-analysis.                      *)
(*                                                                         *)
(*   src/unnamed/part_000  correlation-analyzer.ts (class                  *)
(*                         CorrelationAnalyzer, from line 78 on)           *)
(*   src/unnamed/part_001  candlestick-plotter.ts                          *)
(*                         (transformCandlestickData)                      *)
(*   src/src/index.ts      main(): the windowed run                        *)
(*                                                                         *)
(* JavaScript numbers are modelled as exact rationals (no rounding), a     *)
(* correlation coefficient as the pair (numerator, squared denominator)    *)
(* of the Pearson formula, and strings as sequences of UTF-16 code units.  *)
(***************************************************************************)
EXTENDS Integers, Sequences, FiniteSets, TLC

(***************************************************************************)
(* Bounds of the model.                                                    *)
(***************************************************************************)
\* alignTimeSeries harness: timestamps 1..AlignMaxTs, series of at most
\* AlignMaxLen points.
AlignMaxTs == 4
AlignMaxLen == 4
\* deduplicateCorrelations harness: at most MaxRecords input records.
MaxRecords == 3
\* analyzeMultipleMarkets harness: at most MaxMarkets markets per call.
MaxMarkets == 3
\* Candle timestamps of the fetch collaborator's replies are 1..MaxTs.
MaxTs == 11
\* index.ts:14 sets WINDOW_SIZE = 50 and index.ts:13 MAX_MARKETS = 100; the
\* model scales the window and keeps the ratio MAX_MARKETS = 2 * WINDOW_SIZE.
WINDOW_SIZE == 3
\* the longest sequence handed to a calculate method
MaxStatLen == 3
\* the most candles in a reply to a single fetch
MaxCandles == 3

(***************************************************************************)
(* Program constants.                                                      *)
(***************************************************************************)
\* part_000:230  if (timestamps.length < 3) return null
MinOverlap == 3
\* part_000:448  aligned.timestamps.length < 10
BatchMinPoints == 10
\* part_000:173  candle.price.close / 100
CentsPerDollar == 100
\* part_000:651  the "|" of the pair key, as a UTF-16 code unit
Bar == 124

MAX_MARKETS == 2 * WINDOW_SIZE

NULL == [null |-> TRUE]

(***************************************************************************)
(* Exact rational arithmetic for JavaScript numbers.                       *)
(***************************************************************************)
Abs(n) == IF n < 0 THEN -n ELSE n

RECURSIVE GCD(_, _)
GCD(a, b) == IF b = 0 THEN a ELSE GCD(b, a % b)

\* n/d in lowest terms with a positive denominator (d # 0).
Rat(n, d) ==
  LET s == IF d < 0 THEN -1 ELSE 1
      g == GCD(Abs(n), Abs(d))
  IN  [n |-> (s * n) \div g, d |-> (s * d) \div g]

R0 == [n |-> 0, d |-> 1]
R1 == [n |-> 1, d |-> 1]
RInt(k) == [n |-> k, d |-> 1]
RAdd(a, b) ==
  LET g == GCD(a.d, b.d)
  IN  Rat(a.n * (b.d \div g) + b.n * (a.d \div g), (a.d \div g) * b.d)
RNeg(a) == [n |-> -a.n, d |-> a.d]
RSub(a, b) == RAdd(a, RNeg(b))
\* the factors are cancelled crosswise before they are multiplied
RMul(a, b) ==
  LET g1 == GCD(Abs(a.n), b.d)
      g2 == GCD(Abs(b.n), a.d)
  IN  [n |-> (a.n \div g1) * (b.n \div g2), d |-> (a.d \div g2) * (b.d \div g1)]
RInv(a) == IF a.n < 0 THEN [n |-> -a.d, d |-> -a.n] ELSE [n |-> a.d, d |-> a.n]
RDiv(a, b) == RMul(a, RInv(b))
\* p1/q1 < p2/q2 for p >= 0 and q > 0, by the integer parts and then the
\* reciprocals of the fractional parts (no product is formed)
RECURSIVE FracLess(_, _, _, _)
FracLess(p1, q1, p2, q2) ==
  IF p1 \div q1 # p2 \div q2 THEN p1 \div q1 < p2 \div q2
  ELSE IF p2 % q2 = 0 THEN FALSE
  ELSE IF p1 % q1 = 0 THEN TRUE
  ELSE FracLess(q2, p2 % q2, q1, p1 % q1)
RLess(a, b) ==
  IF a.n < 0 /\ b.n >= 0 THEN TRUE
  ELSE IF a.n >= 0 /\ b.n < 0 THEN FALSE
  ELSE IF a.n < 0 THEN FracLess(-b.n, b.d, -a.n, a.d)
  ELSE FracLess(a.n, a.d, b.n, b.d)

RECURSIVE RSum(_)
RSum(s) == IF s = <<>> THEN R0 ELSE RAdd(Head(s), RSum(Tail(s)))

(***************************************************************************)
(* Strings as sequences of code units: JavaScript's < on strings.          *)
(***************************************************************************)
RECURSIVE StrLess(_, _)
StrLess(a, b) ==
  IF b = <<>> THEN FALSE
  ELSE IF a = <<>> THEN TRUE
  ELSE IF Head(a) # Head(b) THEN Head(a) < Head(b)
  ELSE StrLess(Tail(a), Tail(b))

(***************************************************************************)
(* alignTimeSeries (part_000:207-236)                                      *)
(***************************************************************************)
\* series2Map after the forEach of lines 216-219: a later entry for the same
\* timestamp overwrites an earlier one.  (The map is built from series1.)
RECURSIVE series2Map(_, _)
series2Map(series, n) ==
  IF n = 0 THEN <<>>
  ELSE LET m  == series2Map(series, n - 1)
           ts == series.timestamps[n]
       IN  [t \in (DOMAIN m) \cup {ts} |->
              IF t = ts THEN series.closePrices[n] ELSE m[t]]

\* The forEach of lines 222-228 over the first n points of series2.
RECURSIVE Matching(_, _, _)
Matching(map, series, n) ==
  IF n = 0 THEN [prices1 |-> <<>>, prices2 |-> <<>>, timestamps |-> <<>>]
  ELSE LET acc == Matching(map, series, n - 1)
           ts  == series.timestamps[n]
       IN  IF ts \in DOMAIN map
           THEN [prices1    |-> Append(acc.prices1, map[ts]),
                 prices2    |-> Append(acc.prices2, series.closePrices[n]),
                 timestamps |-> Append(acc.timestamps, ts)]
           ELSE acc

alignTimeSeriesTooFew(s1, s2) ==
  LET r == Matching(series2Map(s1, Len(s1.timestamps)), s2, Len(s2.timestamps))
  IN  IF Len(r.timestamps) < MinOverlap - 1 THEN NULL ELSE r

alignTimeSeriesSwapped(s1, s2) ==
  LET r == Matching(series2Map(s2, Len(s2.timestamps)), s1, Len(s1.timestamps))
  IN  IF Len(r.timestamps) < MinOverlap THEN NULL ELSE r

alignTimeSeries(s1, s2) ==
  LET r == Matching(series2Map(s1, Len(s1.timestamps)), s2, Len(s2.timestamps))
  IN  IF Len(r.timestamps) < MinOverlap THEN NULL ELSE r


(***************************************************************************)
(* transformCandlestickData (part_001:31-82).  A candle is                 *)
(* [end_period_ts, price, yes_ask, yes_bid, volume]; an OHLC value is      *)
(* NULL or [close |-> cents]: open, high and low are never read by the     *)
(* analyzer.                                                               *)
(***************************************************************************)
\* candle.price?.close is truthy: price is there and its close is not 0.
HasClose(candle) == candle.price # NULL /\ candle.price.close # R0

transformCandle(candle) ==
  IF HasClose(candle) THEN candle
  ELSE IF candle.yes_ask # NULL /\ candle.yes_bid # NULL
  THEN [candle EXCEPT !.price =
          [close |-> RDiv(RAdd(candle.yes_ask.close, candle.yes_bid.close),
                          RInt(2))]]
  ELSE IF candle.yes_ask # NULL THEN [candle EXCEPT !.price = candle.yes_ask]
  ELSE IF candle.yes_bid # NULL THEN [candle EXCEPT !.price = candle.yes_bid]
  ELSE [candle EXCEPT !.price = [close |-> R0]]

transformCandlestickData(candlesticks) ==
  [k \in 1..Len(candlesticks) |-> transformCandle(candlesticks[k])]

(***************************************************************************)
(* fetchMarketTimeSeries (part_000:135-201).  A reply of                   *)
(* kalshi.getMarketCandlesticks is [kind |-> "throw"] (the promise         *)
(* rejects), [kind |-> "null"] (no response body) or                       *)
(* [kind |-> "data", candlesticks |-> <<...>>].                            *)
(***************************************************************************)
THROWN == [thrown |-> TRUE]

\* line 171: candle.price && candle.price.close > 0
UsablePrice(candle) == candle.price # NULL /\ RLess(R0, candle.price.close)

\* The loop of lines 170-176 over the first n transformed candles.
RECURSIVE ExtractPoints(_, _)
ExtractPoints(candlesticks, n) ==
  IF n = 0 THEN [timestamps |-> <<>>, closePrices |-> <<>>, volumes |-> <<>>]
  ELSE LET acc    == ExtractPoints(candlesticks, n - 1)
           candle == candlesticks[n]
       IN  IF UsablePrice(candle)
           THEN [timestamps  |-> Append(acc.timestamps, candle.end_period_ts),
                 closePrices |-> Append(acc.closePrices,
                                   RDiv(candle.price.close, RInt(CentsPerDollar))),
                 volumes     |-> Append(acc.volumes, candle.volume)]
           ELSE acc

\* Lines 153-193: the reply has arrived.
SeriesOfResponse(market, response) ==
  IF response.kind = "null" \/ Len(response.candlesticks) = 0 THEN NULL
  ELSE LET candlesticks == transformCandlestickData(response.candlesticks)
           pts == ExtractPoints(candlesticks, Len(candlesticks))
       IN  IF Len(pts.closePrices) = 0 THEN NULL
           ELSE [marketTicker |-> market.marketTicker,
                 eventTicker  |-> market.eventTicker,
                 eventTitle   |-> market.eventTitle,
                 title        |-> market.title,
                 timestamps   |-> pts.timestamps,
                 closePrices  |-> pts.closePrices,
                 volumes      |-> pts.volumes]

\* Without the try/catch of lines 144 and 194-200 the rejection propagates.
fetchMarketTimeSeriesNoCatch(market, response) ==
  IF response.kind = "throw" THEN THROWN
  ELSE SeriesOfResponse(market, response)

fetchMarketTimeSeries(market, response) ==
  IF response.kind = "throw" THEN NULL
  ELSE SeriesOfResponse(market, response)

(***************************************************************************)
(* calculateReturns (part_000:269-279)                                     *)
(***************************************************************************)
RECURSIVE ReturnsUpTo(_, _)
ReturnsUpTo(prices, n) ==
  IF n < 2 THEN <<>>
  ELSE Append(ReturnsUpTo(prices, n - 1),
              IF prices[n - 1] # R0
              THEN RDiv(RSub(prices[n], prices[n - 1]), prices[n - 1])
              ELSE R0)

\* Variant: the change of the price, not divided by the previous price.
calculateReturnsAbsolute(prices) ==
  [k \in 1..(Len(prices) - 1) |-> RSub(prices[k + 1], prices[k])]

calculateReturns(prices) == ReturnsUpTo(prices, Len(prices))

(***************************************************************************)
(* calculateCorrelation (part_000:241-263).  The result stands for         *)
(* num / sqrt(den2); the number 0 is CorrZero.                             *)
(***************************************************************************)
CorrZero == [num |-> R0, den2 |-> R1]

\* line 249
SumXY(x, y) == RSum([k \in 1..Len(x) |-> RMul(x[k], y[k])])
\* line 254
Numerator(x, y) ==
  RSub(RMul(RInt(Len(x)), SumXY(x, y)), RMul(RSum(x), RSum(y)))
\* lines 255-257, without the square root
DenominatorSquared(x, y) ==
  RMul(RSub(RMul(RInt(Len(x)), SumXY(x, x)), RMul(RSum(x), RSum(x))),
       RSub(RMul(RInt(Len(y)), SumXY(y, y)), RMul(RSum(y), RSum(y))))

\* Variant: the check of line 259 is missing; den2 = 0 stands for NaN.
calculateCorrelationUnguarded(x, y) ==
  IF Len(x) # Len(y) \/ Len(x) = 0 THEN CorrZero
  ELSE [num |-> Numerator(x, y), den2 |-> DenominatorSquared(x, y)]

\* Variant: the numerator lacks the factor n.
calculateCorrelationUnscaled(x, y) ==
  IF Len(x) # Len(y) \/ Len(x) = 0 THEN CorrZero
  ELSE IF DenominatorSquared(x, y) = R0 THEN CorrZero
  ELSE [num  |-> RSub(SumXY(x, y), RMul(RSum(x), RSum(y))),
        den2 |-> DenominatorSquared(x, y)]

calculateCorrelation(x, y) ==
  IF Len(x) # Len(y) \/ Len(x) = 0 THEN CorrZero
  ELSE LET n     == RInt(Len(x))
           sumX  == RSum(x)
           sumY  == RSum(y)
           sumXY == RSum([k \in 1..Len(x) |-> RMul(x[k], y[k])])
           sumX2 == RSum([k \in 1..Len(x) |-> RMul(x[k], x[k])])
           sumY2 == RSum([k \in 1..Len(y) |-> RMul(y[k], y[k])])
           numerator == RSub(RMul(n, sumXY), RMul(sumX, sumY))
           product   == RMul(RSub(RMul(n, sumX2), RMul(sumX, sumX)),
                             RSub(RMul(n, sumY2), RMul(sumY, sumY)))
       IN  IF product = R0 THEN CorrZero
           ELSE [num |-> numerator, den2 |-> product]

(***************************************************************************)
(* calculateRollingCorrelation (part_000:284-298)                          *)
(***************************************************************************)
\* Array.prototype.slice(from, to) for 0 <= from <= to
Slice(s, from, to) ==
  SubSeq(s, from + 1, IF to < Len(s) THEN to ELSE Len(s))

\* lines 291-295: the iterations from i on
RECURSIVE RollingFrom(_, _, _, _)
RollingFrom(x, y, window, i) ==
  IF i > Len(x) THEN <<>>
  ELSE << calculateCorrelation(Slice(x, i - window, i),
                               Slice(y, i - window, i)) >>
       \o RollingFrom(x, y, window, i + 1)

\* Variant: the loop stops one window early (i < x.length).
calculateRollingCorrelationShort(x, y, window) ==
  RollingFrom(SubSeq(x, 1, Len(x) - 1), y, window, window)

calculateRollingCorrelation(x, y, window) == RollingFrom(x, y, window, window)

\* The square of a correlation, a rational in [0, 1].
CorrSquared(c) == RDiv(RMul(c.num, c.num), c.den2)

\* Math.abs(a) > Math.abs(b) for correlations a and b.
AbsGreater(a, b) == RLess(CorrSquared(b), CorrSquared(a))

(***************************************************************************)
(* The pair loop of analyzeMultipleMarkets (part_000:429-475)              *)
(***************************************************************************)
\* line 441
SameEventNever(s1, s2) == FALSE

SameEvent(s1, s2) == s1.eventTicker = s2.eventTicker

\* line 448, negated
EnoughPointsAny(aligned) == aligned # NULL

EnoughPoints(aligned) ==
  aligned # NULL /\ Len(aligned.timestamps) >= BatchMinPoints

\* Lines 452-467: the records (none or one) pushed for an aligned pair.
CorrelatePair(s1, s2, aligned) ==
  LET returns1 == calculateReturns(aligned.prices1)
      returns2 == calculateReturns(aligned.prices2)
  IN  IF Len(returns1) > 0 /\ Len(returns2) > 0
      THEN << [market1     |-> s1.marketTicker,
               market2     |-> s2.marketTicker,
               event1Title |-> s1.eventTitle,
               event2Title |-> s2.eventTitle,
               correlation |-> calculateCorrelation(returns1, returns2),
               dataPoints  |-> Len(aligned.timestamps)] >>
      ELSE <<>>

\* Lines 437-467: one iteration of the inner loop.
PairBody(s1, s2) ==
  IF SameEvent(s1, s2) THEN [correlations |-> <<>>, skipped |-> 1]
  ELSE LET aligned == alignTimeSeries(s1, s2)
       IN  IF ~EnoughPoints(aligned) THEN [correlations |-> <<>>, skipped |-> 0]
           ELSE [correlations |-> CorrelatePair(s1, s2, aligned), skipped |-> 0]

\* Lines 435-469: the iterations from (i, j) on, in the order of the loops.
RECURSIVE PairLoopFrom(_, _, _)
PairLoopFrom(tsd, i, j) ==
  IF i > Len(tsd) THEN [correlations |-> <<>>, skipped |-> 0]
  ELSE IF j > Len(tsd) THEN PairLoopFrom(tsd, i + 1, i + 2)
  ELSE LET b    == PairBody(tsd[i], tsd[j])
           rest == PairLoopFrom(tsd, i, j + 1)
       IN  [correlations |-> b.correlations \o rest.correlations,
            skipped      |-> b.skipped + rest.skipped]

\* Variant: the inner loop starts one position late (j = i + 2 at first).
PairLoopLateStart(tsd) == PairLoopFrom(tsd, 1, 3)

PairLoop(tsd) == PairLoopFrom(tsd, 1, 2)

(***************************************************************************)
(* deduplicateCorrelations (part_000:642-668).  correlationMap is a        *)
(* sequence of [key, value] entries in insertion order, as a JavaScript    *)
(* Map keeps them.                                                         *)
(***************************************************************************)
\* Variant: the key keeps the order of the record.
PairKeyOrdered(corr) == corr.market1 \o <<Bar>> \o corr.market2

\* lines 649-652
PairKey(corr) ==
  IF StrLess(corr.market1, corr.market2)
  THEN corr.market1 \o <<Bar>> \o corr.market2
  ELSE corr.market2 \o <<Bar>> \o corr.market1

\* Variant: only a larger sample replaces an existing entry.
ReplacesMorePointsOnly(corr, existing) ==
  corr.dataPoints > existing.dataPoints

\* lines 658-661, for an existing entry
Replaces(corr, existing) ==
  \/ corr.dataPoints > existing.dataPoints
  \/ /\ corr.dataPoints = existing.dataPoints
     /\ AbsGreater(corr.correlation, existing.correlation)

MapIndex(map, key) ==
  IF \E k \in 1..Len(map) : map[k].key = key
  THEN CHOOSE k \in 1..Len(map) : map[k].key = key
  ELSE 0

\* One iteration of the loop of lines 647-665.
MapStep(map, corr) ==
  LET key == PairKey(corr)
      k   == MapIndex(map, key)
  IN  IF k = 0 THEN Append(map, [key |-> key, value |-> corr])
      ELSE IF Replaces(corr, map[k].value)
      THEN [map EXCEPT ![k] = [key |-> key, value |-> corr]]
      ELSE map

RECURSIVE correlationMap(_, _)
correlationMap(corrs, n) ==
  IF n = 0 THEN <<>> ELSE MapStep(correlationMap(corrs, n - 1), corrs[n])

\* line 667: Array.from(correlationMap.values())
deduplicateCorrelations(corrs) ==
  LET map == correlationMap(corrs, Len(corrs))
  IN  [k \in 1..Len(map) |-> map[k].value]

(***************************************************************************)
(* Inputs.                                                                 *)
(***************************************************************************)
\* The market ticker "E<k>" and the event ticker "G<k>".
Ticker(k) == <<69, 48 + k>>
EventTickerNames == <<"G1", "G2", "G3", "G4", "G5", "G6", "G7", "G8", "G9">>
EventTicker(k) == EventTickerNames[k]

Market(k, g) ==
  [eventTicker |-> EventTicker(g), marketTicker |-> Ticker(k),
   title |-> "market", eventTitle |-> EventTicker(g)]

\* Close prices in cents of three markets: two that move, one that is flat.
Cents(pattern, ts) ==
  CASE pattern = 1 -> IF ts % 2 = 1 THEN 1 ELSE 2
    [] pattern = 2 -> IF ts % 3 = 0 THEN 4 ELSE 2
    [] OTHER       -> 5

\* A candle with a traded price; one with only a bid and an ask around the
\* same price; one with neither.
Traded(pattern, ts) ==
  [end_period_ts |-> ts, price |-> [close |-> RInt(Cents(pattern, ts))],
   yes_ask |-> NULL, yes_bid |-> NULL, volume |-> ts]
Quoted(pattern, ts) ==
  [end_period_ts |-> ts, price |-> NULL,
   yes_ask |-> [close |-> RInt(Cents(pattern, ts) + 1)],
   yes_bid |-> [close |-> RInt(Cents(pattern, ts) - 1)], volume |-> 0]
Empty(ts) ==
  [end_period_ts |-> ts, price |-> NULL, yes_ask |-> NULL, yes_bid |-> NULL,
   volume |-> 0]

Data(candlesticks) == [kind |-> "data", candlesticks |-> candlesticks]

\* Replies of kalshi.getMarketCandlesticks, by name.
RespThrow == [kind |-> "throw"]
RespNull  == [kind |-> "null"]
RespDead  == Data([ts \in 1..MaxTs |-> Empty(ts)])
RespFull  == Data([ts \in 1..MaxTs |-> Traded(1, ts)])
\* the first candle has no usable price: the series is 2..MaxTs
RespLate  == Data([ts \in 1..MaxTs |->
                    IF ts = 1 THEN Empty(ts)
                    ELSE IF ts % 2 = 0 THEN Quoted(2, ts) ELSE Traded(2, ts)])
RespShort == Data([ts \in 1..(MaxTs - 2) |-> Traded(2, ts)])
RespFlat  == Data([ts \in 1..MaxTs |-> Traded(3, ts)])
RespTiny  == Data([ts \in 1..2 |-> Traded(1, ts)])

Reply(name) ==
  CASE name = "throw" -> RespThrow
    [] name = "null"  -> RespNull
    [] name = "dead"  -> RespDead
    [] name = "full"  -> RespFull
    [] name = "late"  -> RespLate
    [] name = "short" -> RespShort
    [] name = "flat"  -> RespFlat
    [] name = "tiny"  -> RespTiny

Responses ==
  {"throw", "null", "dead", "full", "late", "short", "flat", "tiny"}
RunResponses == {"throw", "full", "late"}

(***************************************************************************)
(* State.                                                                  *)
(***************************************************************************)
VARIABLES
  pc,               \* position of main(), or of the harness calling a method
  allMarkets,       \* index.ts:94
  windowCount,      \* index.ts:201
  calls,            \* the markets argument of every analyzeMultipleMarkets call
  allCorrelations,  \* index.ts:200, the argument of deduplicateCorrelations
  correlations,     \* index.ts:283, what deduplicateCorrelations returned
  amPc,             \* position of the analyzeMultipleMarkets call
  markets,          \* its argument
  i,                \* markets fetched so far (the loop index of line 397)
  inFlight,         \* fetches issued and not yet completed
  requests,         \* the tickers fetchMarketTimeSeries was called with, in order
  responses,        \* the replies of the fetch collaborator (names), in order
  timeSeriesData,   \* part_000:395
  result,           \* what the call returned (part_000:475)
  skippedSameEvent, \* part_000:431
  series1, series2, \* the arguments of an alignTimeSeries call
  aligned,          \* what it returned
  xs, ys, width,    \* the arguments x, y, window of a call of a calculate method
  out,              \* what it returned
  apPc,             \* position of the analyzeMarketPair call
  apMarkets,        \* the two markets it is called with
  apInFlight,       \* its fetches issued and not yet settled
  apSeries,         \* [series1, series2] of part_000:319, as far as settled
  apCalculated,     \* calls of calculateCorrelation it has made
  apResult,         \* what it returned
  usableTotal,      \* series fetchMarketTimeSeries has returned so far
  reply,            \* what getMarketCandlesticks answered a single fetch
  fetched,          \* what fetchMarketTimeSeries returned for it
  gePc,             \* position of the getEvents call
  limit,            \* its argument
  cursor,           \* quickstart.ts:177
  allEvents,        \* quickstart.ts:176
  sent,             \* the cursors of the requests made, in order
  pages,            \* the responses of eventsApi.getEvents, in order
  geResult          \* what the call returned

vars == <<pc, allMarkets, windowCount, calls, allCorrelations, correlations,
          amPc, markets, i, inFlight, requests, responses, timeSeriesData,
          result, skippedSameEvent, series1, series2, aligned, xs, ys, width, out,
          apPc, apMarkets, apInFlight, apSeries, apCalculated, apResult,
          usableTotal, reply, fetched,
          gePc, limit, cursor, allEvents, sent, pages, geResult>>

mainVars  == <<pc, allMarkets, windowCount, calls, allCorrelations, correlations>>
amVars    == <<amPc, markets, i, inFlight, requests, responses,
               timeSeriesData, result, skippedSameEvent>>
alignVars == <<series1, series2, aligned>>
statVars  == <<xs, ys, width, out>>
pairVars  == <<apPc, apMarkets, apInFlight, apSeries, apCalculated, apResult>>
fetchVars == <<reply, fetched>>
eventVars == <<gePc, limit, cursor, allEvents, sent, pages, geResult>>

NoMain ==
  /\ allMarkets = <<>> /\ windowCount = 0 /\ calls = <<>>
  /\ allCorrelations = <<>> /\ correlations = <<>>
NoCall ==
  /\ amPc = "idle" /\ markets = <<>> /\ i = 0 /\ inFlight = {}
  /\ requests = <<>>
  /\ responses = <<>> /\ timeSeriesData = <<>> /\ result = <<>>
  /\ skippedSameEvent = 0
NoAlign == series1 = NULL /\ series2 = NULL /\ aligned = NULL
NoStat == xs = <<>> /\ ys = <<>> /\ width = 0 /\ out = NULL
NoFetch == reply = NULL /\ fetched = NULL
NoEvents ==
  /\ gePc = "idle" /\ limit = 0 /\ cursor = NULL /\ allEvents = <<>>
  /\ sent = <<>> /\ pages = <<>> /\ geResult = NULL
NoPair ==
  /\ apPc = "idle" /\ apMarkets = <<>> /\ apInFlight = {}
  /\ apSeries = <<>> /\ apCalculated = 0 /\ apResult = NULL

(***************************************************************************)
(* alignTimeSeries on its own.                                             *)
(***************************************************************************)
\* Sequences of distinct timestamps, in any order.
DistinctSeqs(S, n) ==
  {q \in UNION {[1..m -> S] : m \in 0..n} :
     \A a, b \in DOMAIN q : a # b => q[a] # q[b]}

AlignSeries ==
  {[marketTicker |-> Ticker(pattern), eventTicker |-> EventTicker(pattern),
    eventTitle |-> EventTicker(pattern), title |-> "market",
    timestamps |-> tss,
    closePrices |-> [k \in 1..Len(tss) |->
                       Rat(10 * pattern + tss[k], CentsPerDollar)],
    volumes |-> [k \in 1..Len(tss) |-> 0]]
   : tss \in DistinctSeqs(1..AlignMaxTs, AlignMaxLen), pattern \in 1..2}

InitAlign ==
  /\ pc = "align"
  /\ series1 \in AlignSeries
  /\ series2 \in AlignSeries
  /\ aligned = NULL
  /\ NoMain /\ NoCall /\ NoStat /\ NoPair /\ usableTotal = 0 /\ NoFetch
  /\ NoEvents

Align ==
  /\ pc = "align"
  /\ aligned' = alignTimeSeries(series1, series2)
  /\ pc' = "aligned"
  /\ UNCHANGED <<allMarkets, windowCount, calls, allCorrelations, correlations,
                 series1, series2>>
  /\ UNCHANGED amVars
  /\ UNCHANGED statVars
  /\ UNCHANGED pairVars
  /\ UNCHANGED fetchVars
  /\ UNCHANGED usableTotal
  /\ UNCHANGED eventVars

NextAlign == Align
SpecAlign == InitAlign /\ [][NextAlign]_vars

(***************************************************************************)
(* Properties of alignTimeSeries.                                          *)
(***************************************************************************)
Range(s) == {s[k] : k \in DOMAIN s}
CommonTimestamps(a, b) == Range(a.timestamps) \cap Range(b.timestamps)
\* The price of a series at one of its timestamps (its timestamps are distinct).
PriceAt(series, ts) ==
  series.closePrices[CHOOSE k \in DOMAIN series.timestamps :
                       series.timestamps[k] = ts]
InSeries1(ts) == ts \in Range(series1.timestamps)

\* C8: a result of align(seriesA, seriesB) lists exactly seriesB's timestamps
\* that occur in seriesA, in seriesB's order; its three sequences have one
\* length; prices1[k] and prices2[k] are seriesA's and seriesB's prices at
\* timestamps[k].
C8_AlignPairsPrices ==
  (pc = "aligned" /\ aligned # NULL) =>
    /\ aligned.timestamps = SelectSeq(series2.timestamps, InSeries1)
    /\ Len(aligned.prices1) = Len(aligned.timestamps)
    /\ Len(aligned.prices2) = Len(aligned.timestamps)
    /\ \A k \in 1..Len(aligned.timestamps) :
         /\ aligned.prices1[k] = PriceAt(series1, aligned.timestamps[k])
         /\ aligned.prices2[k] = PriceAt(series2, aligned.timestamps[k])

\* A result that drops one of seriesB's timestamps, in an order that is
\* neither sorted nor seriesA's, with different prices in the two series.
C8_Witness ==
  /\ pc = "aligned" /\ aligned # NULL
  /\ series1.timestamps = <<1, 2, 3>>
  /\ series2.timestamps = <<3, 4, 1, 2>>
  /\ aligned.timestamps = <<3, 1, 2>>
  /\ aligned.prices1 # aligned.prices2

\* C9: align returns null exactly when the two series have fewer than 3
\* timestamps in common.
C9_NullIffFewerThanThree ==
  pc = "aligned" =>
    (aligned = NULL <=> Cardinality(CommonTimestamps(series1, series2)) < 3)

\* Two common timestamps: null.
C9_Witness ==
  /\ pc = "aligned" /\ aligned = NULL
  /\ Cardinality(CommonTimestamps(series1, series2)) = 2

\* C10 as stated: timestamps [1,2,3] and [2,3,4] give an aligned pair with
\* timestamps [2,3] and the two series' prices at 2 and 3.
C10_AsStated ==
  (/\ pc = "aligned"
   /\ series1.timestamps = <<1, 2, 3>>
   /\ series2.timestamps = <<2, 3, 4>>) =>
    /\ aligned # NULL
    /\ aligned.timestamps = <<2, 3>>
    /\ aligned.prices1 = <<PriceAt(series1, 2), PriceAt(series1, 3)>>
    /\ aligned.prices2 = <<PriceAt(series2, 2), PriceAt(series2, 3)>>

\* C10, amended: timestamps [1,2,3] and [2,3,4] share only 2 and 3, fewer
\* than the minimum of 3, and align returns null.
C10_TwoCommonGiveNull ==
  (/\ pc = "aligned"
   /\ series1.timestamps = <<1, 2, 3>>
   /\ series2.timestamps = <<2, 3, 4>>) =>
    aligned = NULL

C10_Witness ==
  /\ pc = "aligned"
  /\ series1.timestamps = <<1, 2, 3>>
  /\ series2.timestamps = <<2, 3, 4>>
  /\ series1.closePrices # series2.closePrices

(***************************************************************************)
(* deduplicateCorrelations on its own.                                     *)
(***************************************************************************)
\* Tickers "E1" < "E12" < "E2" as JavaScript strings, and the two pairs
\* ("E1|E2", "E3") and ("E1", "E2|E3"), whose tickers hold the separator.
MergePairs ==
  {<<Ticker(1), Ticker(2)>>, <<Ticker(2), Ticker(1)>>,
   <<Ticker(1) \o <<50>>, Ticker(1)>>,
   <<Ticker(1) \o <<Bar>> \o Ticker(2), Ticker(3)>>,
   <<Ticker(1), Ticker(2) \o <<Bar>> \o Ticker(3)>>}
MergeDataPoints == {12, 20}
\* the correlations 1, -1 and -1/2
MergeCorrelations ==
  {[num |-> RInt(1), den2 |-> R1], [num |-> RInt(-1), den2 |-> R1],
   [num |-> RInt(-1), den2 |-> RInt(4)]}

MergeRecords ==
  {[market1 |-> p[1], market2 |-> p[2], event1Title |-> "G1",
    event2Title |-> "G2", correlation |-> c, dataPoints |-> d]
   : p \in MergePairs, c \in MergeCorrelations, d \in MergeDataPoints}

InitMerge ==
  /\ pc = "dedupe"
  /\ allCorrelations \in UNION {[1..m -> MergeRecords] : m \in 0..MaxRecords}
  /\ correlations = <<>>
  /\ allMarkets = <<>> /\ windowCount = 0 /\ calls = <<>>
  /\ NoCall /\ NoAlign /\ NoStat /\ NoPair /\ usableTotal = 0 /\ NoFetch
  /\ NoEvents

Dedupe ==
  /\ pc = "dedupe"
  /\ correlations' = deduplicateCorrelations(allCorrelations)
  /\ pc' = "deduped"
  /\ UNCHANGED <<allMarkets, windowCount, calls, allCorrelations>>
  /\ UNCHANGED amVars
  /\ UNCHANGED alignVars
  /\ UNCHANGED statVars
  /\ UNCHANGED pairVars
  /\ UNCHANGED fetchVars
  /\ UNCHANGED usableTotal
  /\ UNCHANGED eventVars

NextMerge == Dedupe
SpecMerge == InitMerge /\ [][NextMerge]_vars

(***************************************************************************)
(* Properties of deduplicateCorrelations.                                  *)
(***************************************************************************)
\* The unordered pair of a record.
UPair(r) == {r.market1, r.market2}

\* C2: the record kept for a pair has the largest dataPoints of the input
\* records of that pair and, among those with that dataPoints, the largest
\* |correlation|.
C2_WinnerHasMostPointsThenStrongest ==
  pc = "deduped" =>
    \A r \in Range(allCorrelations) :
      \A w \in Range(correlations) :
        UPair(w) = UPair(r) =>
          /\ w.dataPoints >= r.dataPoints
          /\ w.dataPoints = r.dataPoints =>
               ~AbsGreater(r.correlation, w.correlation)

\* (E1,E2) with 12 points, then (E2,E1) with 20 points and correlation -1/2,
\* then (E1,E2) with 20 points and correlation 1: the last one is kept.
C2_Witness ==
  /\ pc = "deduped"
  /\ Len(allCorrelations) = 3
  /\ UPair(allCorrelations[1]) = UPair(allCorrelations[2])
  /\ UPair(allCorrelations[2]) = UPair(allCorrelations[3])
  /\ allCorrelations[1].market1 # allCorrelations[2].market1
  /\ allCorrelations[1].dataPoints < allCorrelations[2].dataPoints
  /\ allCorrelations[2].dataPoints = allCorrelations[3].dataPoints
  /\ AbsGreater(allCorrelations[3].correlation, allCorrelations[2].correlation)
  /\ correlations = <<allCorrelations[3]>>

\* C3: the output holds exactly one record for each unordered pair of the
\* input, (A,B) and (B,A) being one pair, and only records of the input.
C3_OneRecordPerUnorderedPair ==
  pc = "deduped" =>
    /\ {UPair(w) : w \in Range(correlations)}
         = {UPair(r) : r \in Range(allCorrelations)}
    /\ \A a, b \in 1..Len(correlations) :
         a # b => UPair(correlations[a]) # UPair(correlations[b])
    /\ Range(correlations) \subseteq Range(allCorrelations)

\* C17: the output of deduplicateCorrelations is no longer than its input,
\* and as long exactly when no unordered pair occurs twice in the input.
C17_SizeEqualIffNoPairRepeats ==
  pc = "deduped" =>
    /\ Len(correlations) <= Len(allCorrelations)
    /\ Len(correlations) = Len(allCorrelations)
         <=> \A a, b \in 1..Len(allCorrelations) :
               a # b => UPair(allCorrelations[a]) # UPair(allCorrelations[b])

(***************************************************************************)
(* analyzeMultipleMarkets (part_000:377-476).  The call awaits one fetch   *)
(* at a time (line 409); what follows the last fetch runs to the return    *)
(* without another await.                                                  *)
(***************************************************************************)
\* A fetch is named by the call that issued it and its number in that call.
FetchId(k) == <<Len(calls), k>>

\* Variant: the loop goes on to the next fetch while one is outstanding.
IssuesNextUnawaited(position) == position \in {"fetch", "await"}

\* line 409: the await; the loop issues a fetch only when none of its own
\* is outstanding
IssuesNext(position) == position = "fetch"

\* line 409: fetchMarketTimeSeries is called for markets[i] (0-based)
AmFetch ==
  /\ IssuesNext(amPc)
  /\ i < Len(markets)
  /\ requests' = Append(requests, markets[i + 1].marketTicker)
  /\ inFlight' = inFlight \cup {FetchId(Len(requests) + 1)}
  /\ amPc' = "await"
  /\ UNCHANGED <<markets, i, responses, timeSeriesData, result,
                 skippedSameEvent>>
  /\ UNCHANGED mainVars
  /\ UNCHANGED alignVars
  /\ UNCHANGED statVars
  /\ UNCHANGED pairVars
  /\ UNCHANGED fetchVars
  /\ UNCHANGED usableTotal
  /\ UNCHANGED eventVars

\* lines 409-420: the awaited fetch settles; a rejection would end the call
AmFetchDone(replies) ==
  /\ amPc = "await"
  /\ \E response \in replies :
       LET series == fetchMarketTimeSeries(markets[i + 1], Reply(response))
       IN  /\ responses' = Append(responses, response)
           /\ inFlight' = inFlight \ {FetchId(i + 1)}
           /\ IF series = THROWN
              THEN /\ amPc' = "threw"
                   /\ UNCHANGED <<i, timeSeriesData, usableTotal>>
              ELSE /\ amPc' = "fetch"
                   /\ i' = i + 1
                   /\ timeSeriesData' =
                        IF series # NULL THEN Append(timeSeriesData, series)
                        ELSE timeSeriesData
                   /\ usableTotal' =
                        IF series # NULL THEN usableTotal + 1 ELSE usableTotal
  /\ UNCHANGED <<markets, requests, result, skippedSameEvent>>
  /\ UNCHANGED mainVars
  /\ UNCHANGED alignVars
  /\ UNCHANGED statVars
  /\ UNCHANGED pairVars
  /\ UNCHANGED fetchVars
  /\ UNCHANGED eventVars

\* Variant: the fetch loop leaves out the last market.
FetchLoopEndsEarly(k, ms) == k >= Len(ms) - 1

\* line 397: the fetch loop ends when i < markets.length fails
FetchLoopEnds(k, ms) == ~(k < Len(ms))

\* lines 423-475: the pair loop and the return
AmPairs ==
  /\ amPc = "fetch"
  /\ FetchLoopEnds(i, markets)
  /\ LET r == PairLoop(timeSeriesData)
     IN  /\ result' = r.correlations
         /\ skippedSameEvent' = r.skipped
  /\ amPc' = "returned"
  /\ UNCHANGED <<markets, i, inFlight, requests, responses, timeSeriesData>>
  /\ UNCHANGED mainVars
  /\ UNCHANGED alignVars
  /\ UNCHANGED statVars
  /\ UNCHANGED pairVars
  /\ UNCHANGED fetchVars
  /\ UNCHANGED usableTotal
  /\ UNCHANGED eventVars

(***************************************************************************)
(* analyzeMultipleMarkets on its own: the market at position p is "E<p>",  *)
(* of event G1 or G2.                                                      *)
(***************************************************************************)
MarketLists ==
  UNION {{[p \in 1..m |-> Market(p, g[p])] : g \in [1..m -> 1..2]}
         : m \in 0..MaxMarkets}

InitMany ==
  /\ pc = "analyze"
  /\ markets \in MarketLists
  /\ amPc = "fetch"
  /\ i = 0 /\ inFlight = {} /\ requests = <<>> /\ responses = <<>>
  /\ timeSeriesData = <<>>
  /\ result = <<>> /\ skippedSameEvent = 0
  /\ NoMain /\ NoAlign /\ NoStat /\ NoPair /\ usableTotal = 0 /\ NoFetch
  /\ NoEvents

NextMany ==
  \/ AmFetch
  \/ AmFetchDone(Responses)
  \/ AmPairs
SpecMany == InitMany /\ [][NextMany]_vars

(***************************************************************************)
(* Properties of analyzeMultipleMarkets.  In SpecMany the market tickers   *)
(* of one call are distinct, so a ticker names a position of the input.    *)
(***************************************************************************)
TickerAt(a) == markets[a].marketTicker
Fetched(a) ==
  \E k \in DOMAIN timeSeriesData : timeSeriesData[k].marketTicker = TickerAt(a)
SeriesFor(a) ==
  timeSeriesData[CHOOSE k \in DOMAIN timeSeriesData :
                   timeSeriesData[k].marketTicker = TickerAt(a)]
CommonCount(a, b) == Cardinality(CommonTimestamps(SeriesFor(a), SeriesFor(b)))
RecordsFor(a, b) ==
  {k \in DOMAIN result :
     result[k].market1 = TickerAt(a) /\ result[k].market2 = TickerAt(b)}
Positions == DOMAIN markets
TickerPairs(recs) == [k \in DOMAIN recs |-> <<recs[k].market1, recs[k].market2>>]

\* E1 and E2 of event G1, E3 of event G2, every series fetched in full.
SameEventExample ==
  /\ markets = <<Market(1, 1), Market(2, 1), Market(3, 2)>>
  /\ responses = <<"full", "full", "full">>

\* C4: no record joins two markets of one event; for E1 (G1), E2 (G1),
\* E3 (G2) the pair (E1,E2) is skipped and (E1,E3), (E2,E3) are evaluated.
C4_NoSameEventRecord ==
  amPc = "returned" =>
    /\ \A a, b \in Positions :
         markets[a].eventTicker = markets[b].eventTicker =>
           RecordsFor(a, b) = {}
    /\ SameEventExample =>
         /\ TickerPairs(result) =
              << <<Ticker(1), Ticker(3)>>, <<Ticker(2), Ticker(3)>> >>
         /\ skippedSameEvent = 1

C4_Witness ==
  /\ amPc = "returned"
  /\ SameEventExample
  /\ Len(result) = 2

\* C5: a record's dataPoints is the number of timestamps its two series
\* have in common, which is at least 10; a pair with fewer than 10 common
\* timestamps has no record.
C5_DataPointsAtLeastTen ==
  amPc = "returned" =>
    /\ \A k \in DOMAIN result :
         /\ result[k].dataPoints >= 10
         /\ \E a, b \in Positions :
              /\ a < b /\ Fetched(a) /\ Fetched(b)
              /\ k \in RecordsFor(a, b)
              /\ result[k].dataPoints = CommonCount(a, b)
    /\ \A a, b \in Positions :
         (Fetched(a) /\ Fetched(b) /\ CommonCount(a, b) < 10) =>
           RecordsFor(a, b) = {}

\* One pair with exactly 10 common timestamps and a record, another with 9
\* and none.
C5_Witness ==
  /\ amPc = "returned"
  /\ \E k \in DOMAIN result : result[k].dataPoints = 10
  /\ \E a, b \in Positions :
       /\ a < b /\ Fetched(a) /\ Fetched(b)
       /\ markets[a].eventTicker # markets[b].eventTicker
       /\ CommonCount(a, b) = 9
       /\ RecordsFor(a, b) = {}

\* A pair of positions that the loop emits a record for.
Qualifies(a, b) ==
  /\ a < b /\ Fetched(a) /\ Fetched(b)
  /\ markets[a].eventTicker # markets[b].eventTicker
  /\ CommonCount(a, b) >= 10

\* C6: each pair a < b whose series were both fetched, whose events differ
\* and which has at least 10 common timestamps has exactly one record, with
\* the earlier market as market1 and the later as market2; there is no
\* other record.
C6_EachPairOnce ==
  amPc = "returned" =>
    /\ \A a, b \in Positions :
         Qualifies(a, b) => Cardinality(RecordsFor(a, b)) = 1
    /\ \A k \in DOMAIN result :
         \E a, b \in Positions : Qualifies(a, b) /\ k \in RecordsFor(a, b)

\* Three markets of alternating events: (E1,E2) and (E2,E3) have records.
C6_Witness ==
  /\ amPc = "returned"
  /\ Len(markets) = 3
  /\ Qualifies(1, 2) /\ Qualifies(2, 3) /\ ~Qualifies(1, 3)
  /\ TickerPairs(result) =
       << <<Ticker(1), Ticker(2)>>, <<Ticker(2), Ticker(3)>> >>

\* The call on the input without position k, given the same replies.
Without(s, k) == [p \in 1..(Len(s) - 1) |-> IF p < k THEN s[p] ELSE s[p + 1]]
RECURSIVE SeriesList(_, _, _)
SeriesList(ms, rs, n) ==
  IF n = 0 THEN <<>>
  ELSE LET series == fetchMarketTimeSeries(ms[n], Reply(rs[n]))
           before == SeriesList(ms, rs, n - 1)
       IN  IF series # NULL THEN Append(before, series) ELSE before
ResultWithout(k) ==
  PairLoop(SeriesList(Without(markets, k), Without(responses, k),
                      Len(markets) - 1)).correlations
Mentions(r, ticker) == r.market1 = ticker \/ r.market2 = ticker

\* C7: a fetch that throws or yields no usable data does not end the call:
\* the call goes on to return, without a record for that market and with
\* the records it returns for the same input without that market.
C7_FailedFetchOnlyDropsItsPairs ==
  /\ amPc # "threw"
  /\ amPc = "returned" =>
       \A k \in Positions :
         ~Fetched(k) =>
           /\ \A r \in Range(result) : ~Mentions(r, TickerAt(k))
           /\ result = ResultWithout(k)

\* The fetch of the second of three markets throws; the call returns the
\* record of (E1,E3).
C7_Witness ==
  /\ amPc = "returned"
  /\ Len(markets) = 3
  /\ responses[2] = "throw"
  /\ TickerPairs(result) = << <<Ticker(1), Ticker(3)>> >>

(***************************************************************************)
(* main (index.ts:181-313), from the point where allMarkets is collected.  *)
(***************************************************************************)
Min(a, b) == IF a < b THEN a ELSE b

\* Variant: the first call is given every collected market.
FirstWindowWhole(ms) == ms

\* index.ts:206  allMarkets.slice(0, WINDOW_SIZE)
FirstWindow(ms) == SubSeq(ms, 1, Min(WINDOW_SIZE, Len(ms)))

\* index.ts:252-253  allMarkets.slice(WINDOW_SIZE, endIdx)
SecondWindowOverlapping(ms) ==
  SubSeq(ms, WINDOW_SIZE, Min(WINDOW_SIZE * 2, Len(ms)))

SecondWindow(ms) ==
  SubSeq(ms, WINDOW_SIZE + 1, Min(WINDOW_SIZE * 2, Len(ms)))

\* The stable sort by descending |correlation| of displayCorrelationMatrix
\* (part_000:492-494) and findTopCorrelations (part_000:616-617), which sort
\* the array they are given in place.
SortInsert(sorted, corr) ==
  LET c == Cardinality({k \in DOMAIN sorted :
                          ~AbsGreater(corr.correlation, sorted[k].correlation)})
  IN  SubSeq(sorted, 1, c) \o <<corr>> \o SubSeq(sorted, c + 1, Len(sorted))
RECURSIVE SortByAbs(_, _)
SortByAbs(corrs, n) ==
  IF n = 0 THEN <<>> ELSE SortInsert(SortByAbs(corrs, n - 1), corrs[n])

\* Variant: the new records are put in front.
AccumulateInFront(all, returned) == returned \o all

\* index.ts:221, 244, 271  allCorrelations.push(...correlations)
Accumulate(all, returned) == all \o returned

\* analyzer.analyzeMultipleMarkets(window, ...) is called and awaited
CallAnalyze(window) ==
  /\ markets' = window
  /\ calls' = Append(calls, window)
  /\ amPc' = "fetch"
  /\ i' = 0 /\ requests' = <<>> /\ responses' = <<>> /\ timeSeriesData' = <<>>
  /\ UNCHANGED inFlight
  /\ result' = <<>> /\ skippedSameEvent' = 0

\* index.ts:181-187
MainTooFew ==
  /\ pc = "collected"
  /\ Len(allMarkets) < 2
  /\ pc' = "insufficient"
  /\ UNCHANGED <<allMarkets, windowCount, calls, allCorrelations, correlations>>
  /\ UNCHANGED amVars
  /\ UNCHANGED alignVars
  /\ UNCHANGED statVars
  /\ UNCHANGED pairVars
  /\ UNCHANGED fetchVars
  /\ UNCHANGED usableTotal
  /\ UNCHANGED eventVars

\* index.ts:200-219 and 228-242: the first window, or all the markets
MainWindow1 ==
  /\ pc = "collected"
  /\ Len(allMarkets) >= 2
  /\ windowCount' = windowCount + 1
  /\ CallAnalyze(IF Len(allMarkets) >= WINDOW_SIZE
                 THEN FirstWindow(allMarkets) ELSE allMarkets)
  /\ pc' = "await1"
  /\ UNCHANGED <<allMarkets, allCorrelations, correlations>>
  /\ UNCHANGED alignVars
  /\ UNCHANGED statVars
  /\ UNCHANGED pairVars
  /\ UNCHANGED fetchVars
  /\ UNCHANGED usableTotal
  /\ UNCHANGED eventVars

\* index.ts:214, 237, 264: the awaited call settled; a rejection goes to the
\* catch of lines 310-313
MainWindowDone ==
  /\ pc \in {"await1", "await2"}
  /\ amPc \in {"returned", "threw"}
  /\ IF amPc = "threw"
     THEN /\ pc' = "failed"
          /\ UNCHANGED allCorrelations
     ELSE /\ pc' = IF pc = "await1" THEN "window2" ELSE "combine"
          /\ allCorrelations' = Accumulate(allCorrelations, result)
  /\ amPc' = "idle"
  /\ markets' = <<>> /\ i' = 0 /\ requests' = <<>> /\ responses' = <<>>
  /\ timeSeriesData' = <<>>
  /\ result' = <<>> /\ skippedSameEvent' = 0
  /\ UNCHANGED <<allMarkets, windowCount, calls, correlations, inFlight>>
  /\ UNCHANGED alignVars
  /\ UNCHANGED statVars
  /\ UNCHANGED pairVars
  /\ UNCHANGED fetchVars
  /\ UNCHANGED usableTotal
  /\ UNCHANGED eventVars

\* index.ts:250-269: the next window
MainWindow2 ==
  /\ pc = "window2"
  /\ IF Len(allMarkets) > WINDOW_SIZE
     THEN /\ windowCount' = windowCount + 1
          /\ IF Len(SecondWindow(allMarkets)) >= 2
             THEN /\ CallAnalyze(SecondWindow(allMarkets))
                  /\ pc' = "await2"
             ELSE /\ pc' = "combine"
                  /\ UNCHANGED amVars
                  /\ UNCHANGED calls
     ELSE /\ pc' = "combine"
          /\ UNCHANGED <<windowCount, calls>>
          /\ UNCHANGED amVars
  /\ UNCHANGED <<allMarkets, allCorrelations, correlations>>
  /\ UNCHANGED alignVars
  /\ UNCHANGED statVars
  /\ UNCHANGED pairVars
  /\ UNCHANGED fetchVars
  /\ UNCHANGED usableTotal
  /\ UNCHANGED eventVars

\* index.ts:283
MainCombine ==
  /\ pc = "combine"
  /\ correlations' = deduplicateCorrelations(allCorrelations)
  /\ pc' = "combined"
  /\ UNCHANGED <<allMarkets, windowCount, calls, allCorrelations>>
  /\ UNCHANGED amVars
  /\ UNCHANGED alignVars
  /\ UNCHANGED statVars
  /\ UNCHANGED pairVars
  /\ UNCHANGED fetchVars
  /\ UNCHANGED usableTotal
  /\ UNCHANGED eventVars

\* index.ts:287-309: the display, which sorts correlations in place
MainReport ==
  /\ pc = "combined"
  /\ correlations' = SortByAbs(correlations, Len(correlations))
  /\ pc' = "done"
  /\ UNCHANGED <<allMarkets, windowCount, calls, allCorrelations>>
  /\ UNCHANGED amVars
  /\ UNCHANGED alignVars
  /\ UNCHANGED statVars
  /\ UNCHANGED pairVars
  /\ UNCHANGED fetchVars
  /\ UNCHANGED usableTotal
  /\ UNCHANGED eventVars

\* Distinct tickers of which four hold the separator or are parts of such:
\* "E1" and "E2|E3" lead the first window, "E1|E2" and "E3" the second.
SeparatorTicker(p) ==
  IF p = 1 THEN Ticker(1)
  ELSE IF p = 2 THEN Ticker(2) \o <<Bar>> \o Ticker(3)
  ELSE IF p = WINDOW_SIZE + 1 THEN Ticker(1) \o <<Bar>> \o Ticker(2)
  ELSE IF p = WINDOW_SIZE + 2 THEN Ticker(3)
  ELSE Ticker(p + 3)

\* The market at position p: tickers are distinct, distinct with separators,
\* or repeat from window to window; events are distinct or alternate
\* between two.
RunMarket(p, tickers, events) ==
  LET g == IF events = "distinct" THEN p ELSE ((p - 1) % 2) + 1
  IN  IF tickers = "separators"
      THEN [Market(p, g) EXCEPT !.marketTicker = SeparatorTicker(p)]
      ELSE Market(IF tickers = "distinct" THEN p
                  ELSE ((p - 1) % WINDOW_SIZE) + 1, g)

\* Markets of alternating events have plain distinct tickers.
RunSchemes ==
  {<<"distinct", "distinct">>, <<"distinct", "alternating">>,
   <<"separators", "distinct">>, <<"repeating", "distinct">>}

RunMarketLists ==
  {[p \in 1..n |-> RunMarket(p, scheme[1], scheme[2])]
   : n \in 0..MAX_MARKETS, scheme \in RunSchemes}

InitRun ==
  /\ pc = "collected"
  /\ allMarkets \in RunMarketLists
  /\ windowCount = 0 /\ calls = <<>>
  /\ allCorrelations = <<>> /\ correlations = <<>>
  /\ NoCall /\ NoAlign /\ NoStat /\ NoPair /\ usableTotal = 0 /\ NoFetch
  /\ NoEvents

NextRun ==
  \/ MainTooFew
  \/ MainWindow1
  \/ AmFetch
  \/ AmFetchDone(RunResponses)
  \/ AmPairs
  \/ MainWindowDone
  \/ MainWindow2
  \/ MainCombine
  \/ MainReport
SpecRun == InitRun /\ [][NextRun]_vars

(***************************************************************************)
(* Properties of the windowed run.                                         *)
(***************************************************************************)
RECURSIVE Flatten(_)
Flatten(ss) == IF ss = <<>> THEN <<>> ELSE Head(ss) \o Flatten(Tail(ss))
CeilDiv(a, b) == (a + b - 1) \div b
\* main is past its windows
WindowsOver == pc \in {"insufficient", "combine", "combined", "done"}

\* The k-th window of WINDOW_SIZE markets of ms (k = 1, 2, ...).
WindowSlice(ms, k) ==
  SubSeq(ms, (k - 1) * WINDOW_SIZE + 1, Min(k * WINDOW_SIZE, Len(ms)))

DistinctTickers(ms) ==
  \A a, b \in DOMAIN ms : a # b => ms[a].marketTicker # ms[b].marketTicker

\* No unordered pair has two records in recs.
NoPairTwice(recs) ==
  \A a, b \in DOMAIN recs : a # b => UPair(recs[a]) # UPair(recs[b])

\* C18: when the tickers of allMarkets are pairwise distinct, no unordered
\* pair has two records in allCorrelations, and deduplicateCorrelations
\* returns the records it was given.
C18_DistinctIdsMergeKeepsAll ==
  (pc = "combined" /\ DistinctTickers(allMarkets)) =>
    /\ NoPairTwice(allCorrelations)
    /\ Range(correlations) = Range(allCorrelations)

\* main has ended: it returned at index.ts:186, ran to its end or exited
\* from its catch block.
RunEnded == pc \in {"insufficient", "done", "failed"}

\* C19 as stated: a run in which no usable series was fetched ends in the
\* "insufficient" condition.
C19_AsStated ==
  (RunEnded /\ usableTotal = 0) => pc = "insufficient"

\* C19, amended: the run ends as "insufficient", once and before any fetch,
\* exactly when fewer than 2 markets were collected; nothing else ends it
\* early, and a run with 2 or more markets in which no usable series was
\* fetched runs to its end with no correlations.
C19_OnlyTooFewMarketsEndTheRun ==
  [][/\ pc # "insufficient"
     /\ pc' = "insufficient" =>
          /\ pc = "collected" /\ Len(allMarkets) < 2
          /\ calls = <<>> /\ usableTotal = 0 /\ NoFetch
     /\ Len(allMarkets) < 2 => pc' = "insufficient"
     /\ pc' # "failed" /\ amPc' # "threw"
     /\ (pc' = "done" /\ usableTotal' = 0) => correlations' = <<>>
    ]_vars

\* Every fetch of both windows failed, and the run is complete.
C19_Witness ==
  /\ pc = "done"
  /\ Len(calls) = 2
  /\ usableTotal = 0 /\ NoFetch
  /\ correlations = <<>>

\* C1 as stated: the windows submitted are slices of at most WINDOW_SIZE
\* entities whose concatenation is the whole input, ceil(n / w) of them.
C1_AsStated ==
  WindowsOver =>
    /\ Flatten(calls) = allMarkets
    /\ \A c \in DOMAIN calls : Len(calls[c]) <= WINDOW_SIZE
    /\ Len(calls) = CeilDiv(Len(allMarkets), WINDOW_SIZE)

\* The entities of an input of n entities that are submitted.
Covered(n) ==
  IF n < 2 THEN 0 ELSE IF n = WINDOW_SIZE + 1 THEN WINDOW_SIZE ELSE n

\* C1, amended: for n <= MAX_MARKETS = 2 * WINDOW_SIZE the windows submitted
\* are consecutive slices of at most WINDOW_SIZE entities whose concatenation
\* is the input, except that nothing is submitted for n < 2 and that the
\* single entity left over when n = WINDOW_SIZE + 1 is not submitted.
C1_WindowsPartitionCoveredPrefix ==
  WindowsOver =>
    LET covered == Covered(Len(allMarkets))
    IN  /\ Flatten(calls) = SubSeq(allMarkets, 1, covered)
        /\ \A c \in DOMAIN calls :
             Len(calls[c]) >= 1 /\ Len(calls[c]) <= WINDOW_SIZE
        /\ Len(calls) = CeilDiv(covered, WINDOW_SIZE)

\* 2 * WINDOW_SIZE entities: two full windows.
C1_Witness ==
  /\ pc = "done"
  /\ Len(allMarkets) = 2 * WINDOW_SIZE
  /\ calls = <<SubSeq(allMarkets, 1, WINDOW_SIZE),
               SubSeq(allMarkets, WINDOW_SIZE + 1, 2 * WINDOW_SIZE)>>

\* C21: in a windowed run at most one series fetch is in flight at any time:
\* the fetches issued by a call exceed the settled ones by exactly the fetch
\* in flight, which is the one the call awaits, and every fetch in flight
\* belongs to the call that is running, so none is in flight between calls.
C21_AtMostOneFetchInFlight ==
  /\ Cardinality(inFlight) <= 1
  /\ Len(requests) = Len(responses) + Cardinality(inFlight)
  /\ inFlight # {} <=> amPc = "await"
  /\ \A f \in inFlight : f = FetchId(Len(requests))
  /\ pc \notin {"await1", "await2"} => inFlight = {}

C21_Witness ==
  /\ windowCount = 2
  /\ amPc = "await"
  /\ inFlight = {<<2, 2>>}
  /\ Len(responses) = 1

\* The series the running call has obtained from its own fetches, in order.
RECURSIVE OwnSeries(_)
OwnSeries(k) ==
  IF k = 0 THEN <<>>
  ELSE LET series == fetchMarketTimeSeries(markets[k], Reply(responses[k]))
       IN  IF series = NULL THEN OwnSeries(k - 1)
           ELSE Append(OwnSeries(k - 1), series)

TickersOf(ms) == [k \in DOMAIN ms |-> ms[k].marketTicker]

\* C22: a call of analyzeMultipleMarkets fetches its markets once each, in
\* input order; the pair loop runs only after every fetch has settled; the
\* series it correlates are those of the call's own fetches, none of an
\* earlier call.
C22_OneFetchPerMarketBeforePairs ==
  /\ Len(requests) <= Len(markets)
  /\ requests = SubSeq(TickersOf(markets), 1, Len(requests))
  /\ Len(timeSeriesData) <= Len(responses)
  /\ (result # <<>> \/ skippedSameEvent # 0) => amPc = "returned"
  /\ amPc = "returned" =>
       /\ requests = TickersOf(markets)
       /\ Len(responses) = Len(markets)
       /\ inFlight = {}
       /\ timeSeriesData = OwnSeries(Len(markets))
       /\ \A k \in DOMAIN result :
            \E a, b \in DOMAIN timeSeriesData :
              /\ a < b
              /\ result[k].market1 = timeSeriesData[a].marketTicker
              /\ result[k].market2 = timeSeriesData[b].marketTicker
              /\ result[k].dataPoints =
                   Cardinality(CommonTimestamps(timeSeriesData[a],
                                                timeSeriesData[b]))

\* The second window repeats the tickers of the first; the first call got
\* full series, the second gets the late ones and correlates those.
C22_Witness ==
  /\ Len(calls) = 2
  /\ TickersOf(calls[1]) = TickersOf(calls[2])
  /\ amPc = "returned"
  /\ responses = [k \in DOMAIN markets |-> "late"]
  /\ Len(markets) = WINDOW_SIZE
  /\ allCorrelations # <<>>
  /\ \A k \in DOMAIN allCorrelations : allCorrelations[k].dataPoints = MaxTs
  /\ Len(result) = Len(allCorrelations)
  /\ \A k \in DOMAIN result : result[k].dataPoints = MaxTs - 1

\* Both markets of rec are markets of ms.
BothIn(rec, ms) ==
  \E a, b \in DOMAIN ms :
    /\ a # b
    /\ rec.market1 = ms[a].marketTicker
    /\ rec.market2 = ms[b].marketTicker

\* rec joins a market of the first window with one of the second.
AcrossWindows(rec) ==
  \E a \in DOMAIN WindowSlice(allMarkets, 1) :
    \E b \in DOMAIN WindowSlice(allMarkets, 2) :
      LET t1 == WindowSlice(allMarkets, 1)[a].marketTicker
          t2 == WindowSlice(allMarkets, 2)[b].marketTicker
      IN  {rec.market1, rec.market2} = {t1, t2}

\* C23: every call works on the markets of one window only: the series it
\* holds and the records it returns are of markets of its window, so both
\* markets of every record that main accumulates, merges and reports are
\* markets of one window; when tickers are distinct no record joins a
\* market of the first window with one of the second.
C23_RecordsStayInsideOneWindow ==
  /\ \A c \in DOMAIN calls : calls[c] = WindowSlice(allMarkets, c)
  /\ amPc # "idle" => markets = calls[Len(calls)]
  /\ \A k \in DOMAIN timeSeriesData :
       \E a \in DOMAIN markets :
         timeSeriesData[k].marketTicker = markets[a].marketTicker
  /\ \A k \in DOMAIN result : BothIn(result[k], markets)
  /\ \A k \in DOMAIN allCorrelations :
       \E c \in DOMAIN calls : BothIn(allCorrelations[k], calls[c])
  /\ \A k \in DOMAIN correlations :
       \E c \in DOMAIN calls : BothIn(correlations[k], calls[c])
  /\ DistinctTickers(allMarkets) =>
       /\ \A k \in DOMAIN allCorrelations : ~AcrossWindows(allCorrelations[k])
       /\ \A k \in DOMAIN correlations : ~AcrossWindows(correlations[k])

\* Two full windows of distinct markets, every pair inside a window has a
\* record.
C23_Witness ==
  /\ pc = "done"
  /\ Len(calls) = 2
  /\ DistinctTickers(allMarkets)
  /\ Len(allMarkets) = 2 * WINDOW_SIZE
  /\ Len(correlations) = WINDOW_SIZE * (WINDOW_SIZE - 1)

(***************************************************************************)
(* calculateCorrelation, calculateReturns and calculateRollingCorrelation  *)
(* on their own: a harness calls one of them on (xs, ys).                  *)
(***************************************************************************)
SeqsUpTo(S, n) == UNION {[1..m -> S] : m \in 0..n}
Negated(s) == [k \in DOMAIN s |-> RNeg(s[k])]

\* 0, 1/2, 1 and 3
StatValues == {R0, Rat(1, 2), R1, RInt(3)}
OtherValues == {R0, R1, RInt(3)}
\* prices 0, 5, 99, 100 and 110
PriceValues == {R0, RInt(5), RInt(99), RInt(100), RInt(110)}

InitStats ==
  /\ pc = "call"
  /\ \/ /\ xs \in SeqsUpTo(StatValues, MaxStatLen)
        /\ ys \in {xs, Negated(xs)} \cup SeqsUpTo(OtherValues, MaxStatLen)
     \/ /\ xs \in SeqsUpTo(PriceValues, MaxStatLen)
        /\ ys = <<>>
  /\ width = 0 /\ out = NULL
  /\ NoMain /\ NoCall /\ NoAlign /\ NoPair /\ usableTotal = 0 /\ NoFetch
  /\ NoEvents

StatsFrame ==
  /\ UNCHANGED <<allMarkets, windowCount, calls, allCorrelations, correlations>>
  /\ UNCHANGED amVars
  /\ UNCHANGED alignVars
  /\ UNCHANGED pairVars
  /\ UNCHANGED fetchVars
  /\ UNCHANGED usableTotal
  /\ UNCHANGED eventVars

Pearson ==
  /\ pc = "call"
  /\ out' = calculateCorrelation(xs, ys)
  /\ pc' = "pearson"
  /\ UNCHANGED <<xs, ys, width>>
  /\ StatsFrame

Returns ==
  /\ pc = "call"
  /\ out' = calculateReturns(xs)
  /\ pc' = "returns"
  /\ UNCHANGED <<xs, ys, width>>
  /\ StatsFrame

Rolling ==
  /\ pc = "call"
  /\ \E window \in 0..(MaxStatLen + 1) :
       /\ width' = window
       /\ out' = calculateRollingCorrelation(xs, ys, window)
  /\ pc' = "rolling"
  /\ UNCHANGED <<xs, ys>>
  /\ StatsFrame

NextStats == Pearson \/ Returns \/ Rolling
SpecStats == InitStats /\ [][NextStats]_vars

\* All elements of s are equal: s has no variance.
Constant(s) == \A a, b \in DOMAIN s : s[a] = s[b]

\* The sum over the index pairs a < b of (u[a] - u[b]) * (v[a] - v[b]),
\* which is n * Sum(uv) - Sum(u) * Sum(v) for sequences of length n.
PairSum(u, v) ==
  LET n == Len(u)
  IN  RSum([k \in 1..(n * n) |->
             LET a == ((k - 1) \div n) + 1
                 b == ((k - 1) % n) + 1
             IN  IF a < b
                 THEN RMul(RSub(u[a], u[b]), RSub(v[a], v[b]))
                 ELSE R0])

\* C11: calculateCorrelation returns 0 when the lengths differ, when the
\* sequences are empty and when the variance product (the denominator under
\* the root) is 0, which is when one sequence is constant; otherwise it
\* returns the numerator over the root of a positive variance product.
C11_ZeroOrNumeratorOverRoot ==
  pc = "pearson" =>
    IF Len(xs) # Len(ys) \/ Len(xs) = 0 \/ Constant(xs) \/ Constant(ys)
    THEN out = CorrZero
    ELSE /\ out.num = PairSum(xs, ys)
         /\ out.den2 = RMul(PairSum(xs, xs), PairSum(ys, ys))
         /\ RLess(R0, out.den2)

\* A constant x against a y with variance: the variance product is 0.
C11_Witness ==
  /\ pc = "pearson"
  /\ xs = <<R1, R1, R1>> /\ ys = <<R0, R1, RInt(3)>>
  /\ out = CorrZero

\* the correlation c is 1 (-1): a positive (negative) numerator whose square
\* is the variance product
CorrIsOne(c) == RLess(R0, c.num) /\ RMul(c.num, c.num) = c.den2
CorrIsMinusOne(c) == RLess(c.num, R0) /\ RMul(c.num, c.num) = c.den2

\* C12: for a non-empty x with variance, calculateCorrelation(x, x) is 1 and
\* calculateCorrelation(x, -x) is -1.
C12_SelfIsOneNegatedIsMinusOne ==
  (pc = "pearson" /\ Len(xs) > 0 /\ ~Constant(xs)) =>
    /\ ys = xs => CorrIsOne(out)
    /\ ys = Negated(xs) => CorrIsMinusOne(out)

\* x = (0, 1/2, 3) against -x
C12_Witness ==
  /\ pc = "pearson"
  /\ xs = <<R0, Rat(1, 2), RInt(3)>>
  /\ ys = <<R0, Rat(-1, 2), RInt(-3)>>
  /\ CorrIsMinusOne(out)

\* C13: calculateReturns(prices) has max(len - 1, 0) elements; the element
\* for a previous price p # 0 is the change divided by p (r * p is the
\* change), and 0 for p = 0.  returns(100, 110, 99) = (1/10, -1/10) and
\* returns(0, 5) = (0).
C13_ReturnsOfPrices ==
  pc = "returns" =>
    /\ Len(out) = (IF Len(xs) >= 1 THEN Len(xs) - 1 ELSE 0)
    /\ \A k \in 1..Len(out) :
         IF xs[k] # R0 THEN RMul(out[k], xs[k]) = RSub(xs[k + 1], xs[k])
         ELSE out[k] = R0
    /\ xs = <<RInt(100), RInt(110), RInt(99)>>
         => out = <<Rat(1, 10), Rat(-1, 10)>>
    /\ xs = <<R0, RInt(5)>> => out = <<R0>>

\* prices (0, 5, 100): a guarded division and a division
C13_Witness ==
  /\ pc = "returns"
  /\ xs = <<R0, RInt(5), RInt(100)>>
  /\ out = <<R0, RInt(19)>>

\* The elements of s at the 0-based positions k .. k + n - 1 that exist.
WindowAt(s, k, n) ==
  [j \in 1..(IF k + n <= Len(s) THEN n
             ELSE IF k < Len(s) THEN Len(s) - k ELSE 0) |-> s[k + j]]

\* C14: calculateRollingCorrelation(x, y, window) has len(x) - window + 1
\* elements when len(x) >= window and none otherwise, and its k-th element
\* is calculateCorrelation of x[k .. k+window) and y[k .. k+window).
C14_RollingIsPearsonPerWindow ==
  pc = "rolling" =>
    /\ Len(out) = (IF Len(xs) >= width THEN Len(xs) - width + 1 ELSE 0)
    /\ \A k \in 1..Len(out) :
         out[k] = calculateCorrelation(WindowAt(xs, k - 1, width),
                                       WindowAt(ys, k - 1, width))

\* Three elements under a window of 2 give two correlations, -1 and 1.
C14_Witness ==
  /\ pc = "rolling"
  /\ width = 2
  /\ xs = <<R0, R1, RInt(3)>>
  /\ ys = <<R1, R0, RInt(3)>>
  /\ Len(out) = 2
  /\ CorrIsMinusOne(out[1]) /\ CorrIsOne(out[2])

(***************************************************************************)
(* analyzeMarketPair (part_000:303-372).  Both calls of                    *)
(* fetchMarketTimeSeries in the array of line 319 run to their first await *)
(* (line 145) before Promise.all is awaited; the two requests then settle  *)
(* in either order.                                                        *)
(***************************************************************************)
PENDING == [pending |-> TRUE]

\* line 320: the first fetch is issued
ApFetch1 ==
  /\ apPc = "start"
  /\ apInFlight' = apInFlight \cup {1}
  /\ apPc' = "issued1"
  /\ UNCHANGED <<apMarkets, apSeries, apCalculated, apResult>>
  /\ UNCHANGED <<mainVars, amVars, alignVars, statVars, fetchVars>>
  /\ UNCHANGED usableTotal
  /\ UNCHANGED eventVars

\* line 328: the second fetch is issued, then line 319 awaits both
ApFetch2 ==
  /\ apPc = "issued1"
  /\ apInFlight' = apInFlight \cup {2}
  /\ apPc' = "await"
  /\ UNCHANGED <<apMarkets, apSeries, apCalculated, apResult>>
  /\ UNCHANGED <<mainVars, amVars, alignVars, statVars, fetchVars>>
  /\ UNCHANGED usableTotal
  /\ UNCHANGED eventVars

\* Variant: a reply is handled as soon as its request is out.
MaySettleEarly(k) == k \in apInFlight

\* A reply is handled only once the call is suspended at line 319.
MaySettle(k) == apPc = "await" /\ k \in apInFlight

\* fetch k settles; a rejection would reject Promise.all
ApFetchDone ==
  \E k \in 1..2 :
    /\ MaySettle(k)
    /\ \E response \in Responses :
         LET series == fetchMarketTimeSeries(apMarkets[k], Reply(response))
         IN  /\ apSeries' = [apSeries EXCEPT ![k] = series]
             /\ apPc' = IF series = THROWN THEN "threw" ELSE apPc
             /\ usableTotal' =
                  IF series \notin {NULL, THROWN} THEN usableTotal + 1
                  ELSE usableTotal
    /\ apInFlight' = apInFlight \ {k}
    /\ UNCHANGED <<apMarkets, apCalculated, apResult>>
    /\ UNCHANGED <<mainVars, amVars, alignVars, statVars, fetchVars>>
    /\ UNCHANGED eventVars

\* lines 338-371 for the two settled fetches: [result, calculated], the
\* record returned and the number of calls of calculateCorrelation
PairOutcome(markets2, s1, s2) ==
  IF s1 = NULL \/ s2 = NULL THEN [result |-> NULL, calculated |-> 0]
  ELSE LET al == alignTimeSeries(s1, s2)
       IN  IF al = NULL THEN [result |-> NULL, calculated |-> 0]
           ELSE LET returns1 == calculateReturns(al.prices1)
                    returns2 == calculateReturns(al.prices2)
                IN  [result |->
                       [market1     |-> markets2[1].marketTicker,
                        market2     |-> markets2[2].marketTicker,
                        correlation |->
                          IF Len(returns1) > 0
                          THEN calculateCorrelation(returns1, returns2)
                          ELSE CorrZero,
                        dataPoints  |-> Len(al.timestamps)],
                     calculated |-> IF Len(returns1) > 0 THEN 2 ELSE 1]

\* line 319 resumes with both series
ApRest ==
  /\ apPc = "await"
  /\ apInFlight = {}
  /\ LET o == PairOutcome(apMarkets, apSeries[1], apSeries[2])
     IN  /\ apResult' = o.result
         /\ apCalculated' = o.calculated
  /\ apPc' = "returned"
  /\ UNCHANGED <<apMarkets, apInFlight, apSeries>>
  /\ UNCHANGED <<mainVars, amVars, alignVars, statVars, fetchVars>>
  /\ UNCHANGED usableTotal
  /\ UNCHANGED eventVars

\* Two markets of different events or of the same event; the call passes no
\* eventTitle (lines 320-335).
PairMarkets ==
  {<<[Market(1, 1) EXCEPT !.eventTitle = NULL],
     [Market(2, g) EXCEPT !.eventTitle = NULL]>> : g \in 1..2}

InitPair ==
  /\ pc = "pair"
  /\ apPc = "start"
  /\ apMarkets \in PairMarkets
  /\ apInFlight = {}
  /\ apSeries = <<PENDING, PENDING>>
  /\ apCalculated = 0
  /\ apResult = NULL
  /\ NoMain /\ NoCall /\ NoAlign /\ NoStat /\ usableTotal = 0 /\ NoFetch
  /\ NoEvents

NextPair == ApFetch1 \/ ApFetch2 \/ ApFetchDone \/ ApRest
SpecPair == InitPair /\ [][NextPair]_vars

\* C15: analyzeMarketPair issues both fetches before it handles a reply of
\* either and computes nothing before both have settled; it returns null
\* without a call of calculateCorrelation when a series is missing or the
\* two share fewer than 3 timestamps, and otherwise a record whose
\* dataPoints is the number of shared timestamps.
C15_BothFetchedThenNullOrRecord ==
  /\ apPc # "threw"
  /\ apPc \in {"start", "issued1"} => apSeries = <<PENDING, PENDING>>
  /\ apPc \in {"start", "issued1", "await"} =>
       apCalculated = 0 /\ apResult = NULL
  /\ apPc = "returned" =>
       /\ apInFlight = {}
       /\ apSeries[1] # PENDING /\ apSeries[2] # PENDING
       /\ IF \/ apSeries[1] = NULL \/ apSeries[2] = NULL
             \/ Cardinality(CommonTimestamps(apSeries[1], apSeries[2]))
                  < MinOverlap
          THEN apResult = NULL /\ apCalculated = 0
          ELSE /\ apResult # NULL
               /\ apResult.market1 = apMarkets[1].marketTicker
               /\ apResult.market2 = apMarkets[2].marketTicker
               /\ apResult.dataPoints =
                    Cardinality(CommonTimestamps(apSeries[1], apSeries[2]))

\* Two series of different lengths: a record over their shared timestamps.
C15_Witness ==
  /\ apPc = "returned"
  /\ apSeries[1] # NULL /\ apSeries[2] # NULL
  /\ Len(apSeries[1].timestamps) > Len(apSeries[2].timestamps)
  /\ apResult # NULL
  /\ apResult.dataPoints = Len(apSeries[2].timestamps)
  /\ apCalculated = 2

(***************************************************************************)
(* fetchMarketTimeSeries on its own: one call, answered by a rejection, by *)
(* no body or by up to MaxCandles candles of any kind.                     *)
(***************************************************************************)
Close(c) == [close |-> RInt(c)]
\* The candle of timestamp ts of each kind: a traded price; no price and a
\* bid and an ask; nothing; a price of 0 with a bid and an ask; a price of 0
\* alone; no price and an ask only; no price and a bid and an ask of 0.
CandleKinds ==
  {"traded", "quoted", "empty", "zeroQuoted", "zero", "askOnly", "quotedZero"}
Candle(kind, ts) ==
  [end_period_ts |-> ts,
   volume  |-> ts,
   price   |-> CASE kind = "traded" -> Close(40 + ts)
                 [] kind \in {"zeroQuoted", "zero"} -> Close(0)
                 [] OTHER -> NULL,
   yes_ask |-> CASE kind \in {"quoted", "zeroQuoted", "askOnly"} -> Close(51)
                 [] kind = "quotedZero" -> Close(0)
                 [] OTHER -> NULL,
   yes_bid |-> CASE kind \in {"quoted", "zeroQuoted"} -> Close(48)
                 [] kind = "quotedZero" -> Close(0)
                 [] OTHER -> NULL]

FetchReplies ==
  {RespThrow, RespNull}
    \cup {Data([k \in DOMAIN kinds |-> Candle(kinds[k], k)])
          : kinds \in UNION {[1..m -> CandleKinds] : m \in 0..MaxCandles}}

InitFetch ==
  /\ pc = "fetch"
  /\ reply \in FetchReplies
  /\ fetched = NULL
  /\ usableTotal = 0
  /\ NoMain /\ NoCall /\ NoAlign /\ NoStat /\ NoPair
  /\ NoEvents

FetchOne ==
  /\ pc = "fetch"
  /\ fetched' = fetchMarketTimeSeries(Market(1, 1), reply)
  /\ pc' = "fetched"
  /\ UNCHANGED <<reply, usableTotal>>
  /\ UNCHANGED <<allMarkets, windowCount, calls, allCorrelations, correlations>>
  /\ UNCHANGED <<amVars, alignVars, statVars, pairVars>>
  /\ UNCHANGED eventVars

NextFetch == FetchOne
SpecFetch == InitFetch /\ [][NextFetch]_vars

\* The three arrays of a series have one length, which is not 0, and every
\* close price is above 0.
WellFormed(series) ==
  /\ Len(series.timestamps) = Len(series.closePrices)
  /\ Len(series.volumes) = Len(series.closePrices)
  /\ Len(series.closePrices) > 0
  /\ \A k \in DOMAIN series.closePrices : RLess(R0, series.closePrices[k])

NoQuotes(candle) == candle.yes_ask = NULL /\ candle.yes_bid = NULL
CloseOfZero(candle) == candle.price # NULL /\ candle.price.close = R0

\* The timestamps of the points of the series returned.
PointTimestamps == IF fetched = NULL THEN {} ELSE Range(fetched.timestamps)

\* For a reply with candles: no candle that satisfies Unusable has a point,
\* and the result is null when every candle satisfies it.
DropsUnusable(Unusable(_)) ==
  reply.kind = "data" =>
    /\ \A k \in DOMAIN reply.candlesticks :
         Unusable(reply.candlesticks[k])
           => reply.candlesticks[k].end_period_ts \notin PointTimestamps
    /\ (\A k \in DOMAIN reply.candlesticks : Unusable(reply.candlesticks[k]))
         => fetched = NULL

\* no price and no bid or ask, or a close of 0
UnusableAsStated(candle) ==
  (candle.price = NULL /\ NoQuotes(candle)) \/ CloseOfZero(candle)
\* C20: a series returned is well formed; a candle with no price and no bid
\* or ask, or with a close of 0, has no point, and the result is null when
\* every candle is of that kind.
C20_SeriesWellFormedUnusableDropped ==
  pc = "fetched" =>
    /\ fetched # NULL => WellFormed(fetched)
    /\ DropsUnusable(UnusableAsStated)

(***************************************************************************)
(* KalshiCorrelator.getEvents (quickstart.ts:175-222) on its own: the      *)
(* events API answers every request with a page of its choice; the j-th    *)
(* event of the p-th page is <<p, j>>.                                     *)
(***************************************************************************)
MaxLimit == 3
MaxPageLen == 2
MaxRequests == 3

\* A cursor of a response: undefined, the empty string or a string.
NoCursor == NULL
Cursors == {NoCursor, [text |-> <<>>], [text |-> <<99>>]}

\* line 215: !cursor is false for a non-empty string only
Truthy(c) == c # NoCursor /\ c.text # <<>>

EventsOfPage(p, n) == [j \in 1..n |-> <<p, j>>]

\* What eventsApi.getEvents may answer request p: a rejection, a response
\* without data, data without events, or data with events.
GeReplies(p) ==
  {[kind |-> "reject"], [kind |-> "nodata"]}
    \cup {[kind |-> "bare", cursor |-> c] : c \in Cursors}
    \cup {[kind |-> "data", events |-> EventsOfPage(p, n), cursor |-> c]
          : n \in 0..MaxPageLen, c \in Cursors}

\* lines 202-203: the events that are pushed
PageEvents(r) == IF r.kind = "data" THEN r.events ELSE <<>>

\* line 212: data?.cursor
PageCursor(r) == IF r.kind \in {"bare", "data"} THEN r.cursor ELSE NoCursor

\* line 215: the break
Breaks(c, n, lim) == ~Truthy(c) \/ n >= lim

\* Variant: everything accumulated is returned.
FirstEventsUnsliced(all, lim) == all

\* line 221: allEvents.slice(0, limit)
FirstEvents(all, lim) == Slice(all, 0, lim)

InitEvents ==
  /\ pc = "events"
  /\ gePc = "loop"
  /\ limit \in 0..MaxLimit
  /\ cursor = NoCursor
  /\ allEvents = <<>> /\ sent = <<>> /\ pages = <<>> /\ geResult = NULL
  /\ NoMain /\ NoCall /\ NoAlign /\ NoStat /\ NoPair /\ usableTotal = 0
  /\ NoFetch

EventsFrame ==
  /\ UNCHANGED <<pc, allMarkets, windowCount, calls, allCorrelations,
                 correlations>>
  /\ UNCHANGED <<amVars, alignVars, statVars, pairVars, fetchVars>>
  /\ UNCHANGED <<limit, usableTotal>>

\* lines 190-200: the loop condition holds and a page is requested
GeRequest ==
  /\ gePc = "loop"
  /\ Len(allEvents) < limit
  /\ Len(sent) < MaxRequests
  /\ sent' = Append(sent, cursor)
  /\ gePc' = "await"
  /\ UNCHANGED <<cursor, allEvents, pages, geResult>>
  /\ EventsFrame

\* lines 193-217: the request settles
GeResponse ==
  /\ gePc = "await"
  /\ \E r \in GeReplies(Len(pages) + 1) :
       /\ pages' = Append(pages, r)
       /\ IF r.kind = "reject"
          THEN /\ gePc' = "threw"
               /\ UNCHANGED <<cursor, allEvents>>
          ELSE /\ allEvents' = allEvents \o PageEvents(r)
               /\ cursor' = PageCursor(r)
               /\ gePc' = IF Breaks(cursor', Len(allEvents'), limit)
                          THEN "slice" ELSE "loop"
  /\ UNCHANGED <<sent, geResult>>
  /\ EventsFrame

\* line 221: after the break, or when the loop condition fails
GeReturn ==
  /\ \/ gePc = "slice"
     \/ gePc = "loop" /\ ~(Len(allEvents) < limit)
  /\ geResult' = FirstEvents(allEvents, limit)
  /\ gePc' = "returned"
  /\ UNCHANGED <<cursor, allEvents, sent, pages>>
  /\ EventsFrame

NextEvents ==
  \/ GeRequest
  \/ GeResponse
  \/ GeReturn
SpecEvents == InitEvents /\ [][NextEvents]_vars

\* The events of the first p pages, concatenated in fetch order.
Accumulated(p) == Flatten([k \in 1..p |-> PageEvents(pages[k])])

\* C24: getEvents(limit) returns the first limit events of the fetched
\* pages concatenated in fetch order, hence at most limit events; a page
\* is followed by another request only if its response carried a cursor
\* and fewer than limit events had been accumulated with it.
C24_FirstLimitEventsNoPageBeyond ==
  /\ Len(pages) <= Len(sent) /\ Len(sent) <= Len(pages) + 1
  /\ allEvents = Accumulated(Len(pages))
  /\ \A p \in DOMAIN pages :
       p < Len(sent) =>
         /\ Truthy(PageCursor(pages[p]))
         /\ Len(Accumulated(p)) < limit
  /\ gePc = "returned" =>
       /\ Len(geResult) <= limit
       /\ geResult = SubSeq(Accumulated(Len(pages)), 1,
                            Min(limit, Len(Accumulated(Len(pages)))))
       /\ Len(sent) = Len(pages)

\* Two pages of two events each, of which the first three are returned.
C24_Witness ==
  /\ gePc = "returned"
  /\ limit = 3
  /\ Len(pages) = 2
  /\ geResult = << <<1, 1>>, <<1, 2>>, <<2, 1>> >>
  /\ Len(allEvents) = 4

=============================================================================
